---- MODULE Spec2Model ----
(***************************************************************************)
(* State-machine model of the Map screen, src/app/(tabs)/map.tsx.          *)
(*                                                                         *)
(* Strings the code takes apart (keywords, review texts) are sequences of  *)
(* one-character strings; strings the code only passes around (place ids,  *)
(* names, addresses) are TLA+ strings.  An optional value (undefined or    *)
(* null in the source) is the empty set None, a present value v is {v}.    *)
(*                                                                         *)
(* Every action is one turn of the JavaScript event loop: the handler or   *)
(* promise continuation, the re-render it causes, and the effects whose    *)
(* dependencies changed, repeated until no dependency changes any more.    *)
(*                                                                         *)
(* Spec is the screen used through location, navigation and the search     *)
(* dialog; SpecModal is the screen used through its markers and the detail *)
(* modal; SpecScreen has every handler, with narrower network responses.   *)
(***************************************************************************)
EXTENDS Integers, Sequences, FiniteSets, TLC

VARIABLES
  region,               \* useState<Region | null>, line 30
  recyclingCenters,     \* useState<RecyclingCenter[]>, line 31
  searchModalVisible,   \* line 35
  searchKeyword,        \* draft keyword, line 36
  currentSearchKeyword, \* committed keyword, line 37
  loading,              \* line 39
  itemName,             \* route.params.itemName, line 42
  prevItemName,         \* last-seen external keyword, line 43
  isInitialRender,      \* useRef(true), line 47
  locationTask,         \* position of the async fetchLocationAndCenters, lines 80-97
  pendingSearches,      \* nearby-search requests in flight (axios.get, line 116)
  searchesIssued,       \* number of nearby-search requests sent so far
  pendingDetails,       \* details requests in flight (axios.get, line 148)
  detailsIssued,        \* number of details requests sent so far
  selectedCenter,       \* useState<RecyclingCenter | null>, line 32
  modalVisible,         \* detail modal, line 33
  isExpanded,           \* description expanded, line 40
  descriptionText,      \* render output: the description element, lines 377-381
  lastResponse          \* history: what the most recent network continuation did

vars == <<region, recyclingCenters, searchModalVisible, searchKeyword,
          currentSearchKeyword, loading, itemName, prevItemName,
          isInitialRender, locationTask, pendingSearches, searchesIssued,
          pendingDetails, detailsIssued, selectedCenter, modalVisible,
          isExpanded, descriptionText, lastResponse>>

----------------------------------------------------------------------------
(* Bounds *)

MaxSearches == 3     \* nearby-search requests sent in one behaviour; the
                     \* user and the navigation act until the last is sent
MaxDetails == 2      \* details requests issued in one behaviour

----------------------------------------------------------------------------
(* Values *)

None == {}
Some(v) == {v}
Val(o) == CHOOSE v \in o : TRUE

WhiteSpace == {" ", "\t", "\n", "\r"}

(* Texts typed into the search box: empty, white space only, and a word
   with white space on both sides *)
Keywords == {<<>>, <<" ">>, <<" ", "a", " ">>}

(* Values of the navigation parameter itemName *)
ItemNames == Keywords

(* location.coords delivered by the device; the region is set once per mount,
   so one position with distinct latitude and longitude covers the reads *)
Positions == {[latitude |-> 32, longitude |-> -96]}

defaultKeyword ==
  <<"r","e","c","y","c","l","i","n","g"," ","c","e","n","t","e","r","|",
    "w","a","s","t","e"," ","m","a","n","a","g","e","m","e","n","t","|",
    "r","e","c","y","c","l","a","b","l","e"," ","m","a","t","e","r","i","a","l","s","|",
    "r","e","c","y","c","l","e"," ","c","e","n","t","e","r">>

recyclingSuffix == <<" ","r","e","c","y","c","l","i","n","g">>

noReviews ==
  <<"N","o"," ","r","e","v","i","e","w","s"," ","a","v","a","i","l","a","b","l","e",".">>

addressNotAvailable == "Address not available"

radius == 80467

(* latitudeDelta and longitudeDelta of the region, lines 92-93, as text *)
regionDelta == "0.1"

(* The places the nearby-search endpoint can return (response.data.results
   elements): place_id, name, geometry.location, optional vicinity. *)
Places ==
  {[place_id |-> "p1", name |-> "Center A", lat |-> 32, lng |-> -96,
    vicinity |-> Some("1 Main St")],
   [place_id |-> "p2", name |-> "Center B", lat |-> 33, lng |-> -97,
    vicinity |-> None]}

RECURSIVE DistinctSeqs(_, _)
DistinctSeqs(S, n) ==
  IF n = 0 THEN {<<>>}
  ELSE LET shorter == DistinctSeqs(S, n - 1)
       IN shorter \cup
          UNION {{Append(q, p) : p \in {x \in S : \A k \in 1..Len(q) : q[k] # x}}
                 : q \in shorter}

(* response.data.results of a nearby-search call: distinct places *)
SearchResults ==
  {q \in DistinctSeqs(Places, Cardinality(Places)) :
     \A i, j \in 1..Len(q) : q[i].place_id = q[j].place_id => i = j}

(* response.data.result of a details call *)
DetailResults ==
  {[opening_hours |-> None, rating |-> None, reviews |-> <<>>],
   [opening_hours |-> Some([open_now |-> TRUE, weekday_text |-> <<"Mon 9-5">>]),
    rating |-> Some(4), reviews |-> <<[text |-> <<"o","k">>]>>]}

(* n words w with one space between neighbours *)
RECURSIVE Sentence(_, _)
Sentence(w, n) ==
  IF n = 0 THEN <<>>
  ELSE IF n = 1 THEN w
  ELSE w \o <<" ">> \o Sentence(w, n - 1)

(* reviews[0].text of a details result: texts on both sides of the 20-word
   limit of line 379, with non-empty and with empty words (runs of spaces) *)
ReviewTexts ==
  {Sentence(<<"a">>, 20), Sentence(<<"a">>, 21),
   Sentence(<<>>, 20), Sentence(<<>>, 22)}

(* response.data.result of a details call whose first review is one of
   ReviewTexts, or that has no review *)
ReviewedDetailResults ==
  {[opening_hours |-> None, rating |-> None, reviews |-> <<>>]} \cup
  {[opening_hours |-> None, rating |-> Some(4), reviews |-> <<[text |-> t]>>] :
     t \in ReviewTexts}

----------------------------------------------------------------------------
(* Pure functions *)

(* String.prototype.trim: drop leading, then trailing, white space *)
RECURSIVE TrimStart(_)
TrimStart(k) ==
  IF k # <<>> /\ Head(k) \in WhiteSpace THEN TrimStart(Tail(k)) ELSE k

RECURSIVE TrimEnd(_)
TrimEnd(k) ==
  IF k # <<>> /\ k[Len(k)] \in WhiteSpace
  THEN TrimEnd(SubSeq(k, 1, Len(k) - 1)) ELSE k

Trim(k) == TrimEnd(TrimStart(k))

(* Mutant of EffectiveKeyword: the emptiness test and the query use the
   keyword as typed, without trim() *)
EffectiveKeyword_Untrimmed(keyword) ==
  IF keyword # <<>> THEN keyword \o recyclingSuffix ELSE defaultKeyword

(* lines 108-111: the keyword parameter of the request *)
EffectiveKeyword(keyword) ==
  LET trimmedKeyword == Trim(keyword)
  IN IF trimmedKeyword # <<>> THEN trimmedKeyword \o recyclingSuffix
     ELSE defaultKeyword

(* lines 128-134: one response element to one RecyclingCenter *)
ToCenter(place) ==
  [id |-> place.place_id,
   name |-> place.name,
   latitude |-> place.lat,
   longitude |-> place.lng,
   address |-> IF place.vicinity # None /\ Val(place.vicinity) # ""
               THEN Val(place.vicinity) ELSE addressNotAvailable,
   openingHours |-> None,
   rating |-> None,
   description |-> None]

(* lines 160-163 and 172: the description taken from a details result *)
TopReview(placeDetails) ==
  LET topReview == IF Len(placeDetails.reviews) > 0
                   THEN placeDetails.reviews[1].text ELSE noReviews
  IN IF topReview # <<>> THEN topReview ELSE noReviews

(* Mutant of MergeDetails: the map has no identifier test *)
MergeDetails_EveryEntry(prevCenters, placeId, placeDetails) ==
  [k \in 1..Len(prevCenters) |->
     [prevCenters[k] EXCEPT
        !.openingHours = placeDetails.opening_hours,
        !.rating = placeDetails.rating,
        !.description = Some(TopReview(placeDetails))]]

(* Mutant of MergeDetails: an entry that already has a description keeps
   its details *)
MergeDetails_FirstWriterWins(prevCenters, placeId, placeDetails) ==
  [k \in 1..Len(prevCenters) |->
     IF prevCenters[k].id = placeId /\ prevCenters[k].description = None
     THEN [prevCenters[k] EXCEPT
             !.openingHours = placeDetails.opening_hours,
             !.rating = placeDetails.rating,
             !.description = Some(TopReview(placeDetails))]
     ELSE prevCenters[k]]

(* lines 165-176: the functional update of the list *)
MergeDetails(prevCenters, placeId, placeDetails) ==
  [k \in 1..Len(prevCenters) |->
     IF prevCenters[k].id = placeId
     THEN [prevCenters[k] EXCEPT
             !.openingHours = placeDetails.opening_hours,
             !.rating = placeDetails.rating,
             !.description = Some(TopReview(placeDetails))]
     ELSE prevCenters[k]]

(* String.prototype.split(" "): the pieces between the spaces, of which
   there is one more than there are spaces *)
RECURSIVE Split(_)
Split(str) ==
  IF \A i \in 1..Len(str) : str[i] # " " THEN <<str>>
  ELSE LET i == CHOOSE i \in 1..Len(str) :
                  str[i] = " " /\ \A j \in 1..(i - 1) : str[j] # " "
       IN <<SubSeq(str, 1, i - 1)>> \o Split(SubSeq(str, i + 1, Len(str)))

(* Array.prototype.join(" ") *)
RECURSIVE Join(_)
Join(words) ==
  IF words = <<>> THEN <<>>
  ELSE IF Len(words) = 1 THEN words[1]
  ELSE words[1] \o <<" ">> \o Join(Tail(words))

ellipsis == <<".", ".", ".">>

(* Mutant of RenderedDescription: the cut text without the "..." *)
RenderedDescription_NoEllipsis(center, expanded) ==
  IF expanded THEN center.description
  ELSE IF center.description # None /\ Val(center.description) # <<>>
          /\ Len(Split(Val(center.description))) > 20
       THEN Some(Join(SubSeq(Split(Val(center.description)), 1, 20)))
       ELSE center.description

(* lines 377-381: the text of the description element of the detail modal;
   an absent or empty description is rendered as it is *)
RenderedDescription(center, expanded) ==
  IF expanded THEN center.description
  ELSE IF center.description # None /\ Val(center.description) # <<>>
          /\ Len(Split(Val(center.description))) > 20
       THEN Some(Join(SubSeq(Split(Val(center.description)), 1, 20)) \o ellipsis)
       ELSE center.description

----------------------------------------------------------------------------
(* The component state as one record, so that a handler, the render and the
   effects it triggers compose as functions on states. *)

St ==
  [region |-> region, recyclingCenters |-> recyclingCenters,
   searchModalVisible |-> searchModalVisible, searchKeyword |-> searchKeyword,
   currentSearchKeyword |-> currentSearchKeyword, loading |-> loading,
   itemName |-> itemName, prevItemName |-> prevItemName,
   isInitialRender |-> isInitialRender, locationTask |-> locationTask,
   pendingSearches |-> pendingSearches, searchesIssued |-> searchesIssued,
   pendingDetails |-> pendingDetails, detailsIssued |-> detailsIssued,
   selectedCenter |-> selectedCenter, modalVisible |-> modalVisible,
   isExpanded |-> isExpanded, lastResponse |-> lastResponse]

(* The render that follows the updates: the detail modal's description
   element exists when a center is selected (line 342) *)
Render(s) ==
  IF s.selectedCenter # None
  THEN RenderedDescription(Val(s.selectedCenter), s.isExpanded)
  ELSE None

Commit(s) ==
  /\ region' = s.region
  /\ recyclingCenters' = s.recyclingCenters
  /\ searchModalVisible' = s.searchModalVisible
  /\ searchKeyword' = s.searchKeyword
  /\ currentSearchKeyword' = s.currentSearchKeyword
  /\ loading' = s.loading
  /\ itemName' = s.itemName
  /\ prevItemName' = s.prevItemName
  /\ isInitialRender' = s.isInitialRender
  /\ locationTask' = s.locationTask
  /\ pendingSearches' = s.pendingSearches
  /\ searchesIssued' = s.searchesIssued
  /\ pendingDetails' = s.pendingDetails
  /\ detailsIssued' = s.detailsIssued
  /\ selectedCenter' = s.selectedCenter
  /\ modalVisible' = s.modalVisible
  /\ isExpanded' = s.isExpanded
  /\ descriptionText' = Render(s)
  /\ lastResponse' = s.lastResponse

(* Mutant of fetchRecyclingCenters: the list is emptied when the call starts *)
fetchRecyclingCenters_ClearsList(s, lat, lng, keyword, awaited) ==
  [s EXCEPT
     !.loading = TRUE,
     !.recyclingCenters = <<>>,
     !.searchesIssued = @ + 1,
     !.pendingSearches = @ \cup {[n |-> s.searchesIssued + 1,
                                  location |-> <<lat, lng>>,
                                  radius |-> radius,
                                  keyword |-> EffectiveKeyword(keyword),
                                  arg |-> keyword,
                                  awaited |-> awaited]}]

(* lines 104-126: fetchRecyclingCenters up to its await: the loading flag is
   raised and the request is sent.  awaited records that handleItemNameChange
   (line 69) is suspended on this call. *)
fetchRecyclingCenters(s, lat, lng, keyword, awaited) ==
  [s EXCEPT
     !.loading = TRUE,
     !.searchesIssued = @ + 1,
     !.pendingSearches = @ \cup {[n |-> s.searchesIssued + 1,
                                  location |-> <<lat, lng>>,
                                  radius |-> radius,
                                  keyword |-> EffectiveKeyword(keyword),
                                  arg |-> keyword,
                                  awaited |-> awaited]}]

(* lines 146-156: fetchPlaceDetails up to its await *)
fetchPlaceDetails(s, placeId) ==
  [s EXCEPT !.detailsIssued = @ + 1,
            !.pendingDetails = @ \cup {[n |-> s.detailsIssued + 1,
                                        place_id |-> placeId]}]

RECURSIVE ForEachFetchPlaceDetails(_, _)
ForEachFetchPlaceDetails(s, centers) ==
  IF centers = <<>> THEN s
  ELSE ForEachFetchPlaceDetails(fetchPlaceDetails(s, Head(centers).id),
                                Tail(centers))

----------------------------------------------------------------------------
(* Effects.  c is the render whose closure the effect reads, s the state the
   effect's updates accumulate in. *)

(* Mutant of handleItemNameChange: the test of line 61 without
   isInitialRender.current *)
handleItemNameChange_NoInitialRender(c, s) ==
  IF c.itemName # <<>> /\ c.itemName # c.prevItemName
  THEN LET s1 == [s EXCEPT !.searchKeyword = c.itemName,
                           !.currentSearchKeyword = c.itemName,
                           !.prevItemName = c.itemName]
       IN IF c.region # None
          THEN fetchRecyclingCenters(s1, Val(c.region).latitude,
                                     Val(c.region).longitude, c.itemName, TRUE)
          ELSE [s1 EXCEPT !.isInitialRender = FALSE]
  ELSE s

(* lines 59-77, dependencies [itemName, region] *)
handleItemNameChange(c, s) ==
  IF c.itemName # <<>> /\ (c.itemName # c.prevItemName \/ s.isInitialRender)
  THEN LET s1 == [s EXCEPT !.searchKeyword = c.itemName,
                           !.currentSearchKeyword = c.itemName,
                           !.prevItemName = c.itemName]
       IN IF c.region # None
          THEN fetchRecyclingCenters(s1, Val(c.region).latitude,
                                     Val(c.region).longitude, c.itemName, TRUE)
          ELSE [s1 EXCEPT !.isInitialRender = FALSE]
  ELSE s

(* lines 205-209, dependencies [region, currentSearchKeyword, fetchRecyclingCenters] *)
SearchEffect(c, s) ==
  IF c.region # None /\ c.currentSearchKeyword # <<>>
  THEN fetchRecyclingCenters(s, Val(c.region).latitude,
                             Val(c.region).longitude, c.currentSearchKeyword, FALSE)
  ELSE s

(* lines 211-217, dependencies [itemName] *)
ItemNameEffect(c, s) ==
  IF c.itemName # <<>> /\ c.itemName # c.prevItemName
  THEN [s EXCEPT !.searchKeyword = c.itemName,
                 !.currentSearchKeyword = c.itemName,
                 !.prevItemName = c.itemName]
  ELSE s

(* lines 79-100 on mount: fetchLocationAndCenters up to its first await *)
LocationEffect(c, s) == [s EXCEPT !.locationTask = "requesting"]

(* One pass of effects after the render cur that followed the render prev;
   on mount every effect runs, later only those with a changed dependency. *)
EffectPass(prev, cur, mount) ==
  LET run1 == mount \/ prev.itemName # cur.itemName \/ prev.region # cur.region
      run3 == mount \/ prev.region # cur.region
                    \/ prev.currentSearchKeyword # cur.currentSearchKeyword
      run4 == mount \/ prev.itemName # cur.itemName
      s1 == IF run1 THEN handleItemNameChange(cur, cur) ELSE cur
      s2 == IF mount THEN LocationEffect(cur, s1) ELSE s1
      s3 == IF run3 THEN SearchEffect(cur, s2) ELSE s2
      s4 == IF run4 THEN ItemNameEffect(cur, s3) ELSE s3
  IN s4

DepsChanged(prev, cur) ==
  \/ prev.itemName # cur.itemName
  \/ prev.region # cur.region
  \/ prev.currentSearchKeyword # cur.currentSearchKeyword

(* Render cur after prev and run effects until no dependency changes. *)
RECURSIVE Settle(_, _)
Settle(prev, cur) ==
  IF DepsChanged(prev, cur) THEN Settle(cur, EffectPass(prev, cur, FALSE))
  ELSE cur

----------------------------------------------------------------------------
(* Initial state: the first render (lines 30-47) and the effects of mount *)

(* Mutant of FirstRender: useState(false) for loading *)
FirstRender_NotLoading(name) ==
  [region |-> None, recyclingCenters |-> <<>>,
   searchModalVisible |-> FALSE, searchKeyword |-> <<>>,
   currentSearchKeyword |-> <<>>, loading |-> FALSE,
   itemName |-> name, prevItemName |-> name,
   isInitialRender |-> TRUE, locationTask |-> "idle",
   pendingSearches |-> {}, searchesIssued |-> 0,
   pendingDetails |-> {}, detailsIssued |-> 0,
   selectedCenter |-> None, modalVisible |-> FALSE, isExpanded |-> FALSE,
   lastResponse |-> "none"]

FirstRender(name) ==
  [region |-> None, recyclingCenters |-> <<>>,
   searchModalVisible |-> FALSE, searchKeyword |-> <<>>,
   currentSearchKeyword |-> <<>>, loading |-> TRUE,
   itemName |-> name, prevItemName |-> name,
   isInitialRender |-> TRUE, locationTask |-> "idle",
   pendingSearches |-> {}, searchesIssued |-> 0,
   pendingDetails |-> {}, detailsIssued |-> 0,
   selectedCenter |-> None, modalVisible |-> FALSE, isExpanded |-> FALSE,
   lastResponse |-> "none"]

Mount(name) ==
  LET r == FirstRender(name)
  IN Settle(r, EffectPass(r, r, TRUE))

Init ==
  \E name \in ItemNames :
    LET s == Mount(name)
    IN /\ region = s.region
       /\ recyclingCenters = s.recyclingCenters
       /\ searchModalVisible = s.searchModalVisible
       /\ searchKeyword = s.searchKeyword
       /\ currentSearchKeyword = s.currentSearchKeyword
       /\ loading = s.loading
       /\ itemName = s.itemName
       /\ prevItemName = s.prevItemName
       /\ isInitialRender = s.isInitialRender
       /\ locationTask = s.locationTask
       /\ pendingSearches = s.pendingSearches
       /\ searchesIssued = s.searchesIssued
       /\ pendingDetails = s.pendingDetails
       /\ detailsIssued = s.detailsIssued
       /\ selectedCenter = s.selectedCenter
       /\ modalVisible = s.modalVisible
       /\ isExpanded = s.isExpanded
       /\ descriptionText = Render(s)
       /\ lastResponse = s.lastResponse

----------------------------------------------------------------------------
(* Location Acquirer: the continuations of fetchLocationAndCenters *)

(* lines 50-55 and 82: the permission request resolves with a status other
   than 'granted' *)
PermissionDenied ==
  /\ locationTask = "requesting"
  /\ Commit([St EXCEPT !.locationTask = "denied"])

(* lines 56 and 84-86: permission granted, the position request is sent *)
PermissionGranted ==
  /\ locationTask = "requesting"
  /\ Commit([St EXCEPT !.locationTask = "locating"])

(* Mutant of LocationAcquiredBody: the default search without setRegion *)
LocationAcquiredBody_NoRegion(s, coords) ==
  LET s1 == [s EXCEPT !.locationTask = "done"]
  IN fetchRecyclingCenters(s1, coords.latitude, coords.longitude, <<>>, FALSE)

(* lines 88-96: the position arrives *)
LocationAcquiredBody(s, coords) ==
  LET s1 == [s EXCEPT !.region = Some([latitude |-> coords.latitude,
                                       longitude |-> coords.longitude,
                                       latitudeDelta |-> regionDelta,
                                       longitudeDelta |-> regionDelta]),
                      !.locationTask = "done"]
  IN fetchRecyclingCenters(s1, coords.latitude, coords.longitude, <<>>, FALSE)

LocationAcquired(coords) ==
  /\ locationTask = "locating"
  /\ Commit(Settle(St, LocationAcquiredBody(St, coords)))

(* lines 84-86: getCurrentPositionAsync rejects; nothing catches it *)
LocationFailed ==
  /\ locationTask = "locating"
  /\ Commit([St EXCEPT !.locationTask = "failed"])

----------------------------------------------------------------------------
(* Search Controller *)

(* The user and the navigation act until the last request of the bound is sent *)
InputOpen == searchesIssued < MaxSearches

(* line 42: navigation delivers a different itemName; the screen re-renders *)
ItemNameChange(name) ==
  /\ name # itemName
  /\ InputOpen
  /\ LET s == Settle(St, [St EXCEPT !.itemName = name])
     IN /\ s.searchesIssued <= MaxSearches
        /\ Commit(s)

(* lines 277-282: the search icon, rendered only while loading is false;
   a visible modal takes the touches *)
OpenSearchModal ==
  /\ ~loading
  /\ ~searchModalVisible
  /\ ~modalVisible
  /\ InputOpen
  /\ Commit([St EXCEPT !.searchModalVisible = TRUE])

(* line 324: onChangeText of the search box *)
setSearchKeyword(text) ==
  /\ searchModalVisible
  /\ text # searchKeyword
  /\ InputOpen
  /\ Commit([St EXCEPT !.searchKeyword = text])

(* lines 219-225 *)
HandleSearchBody(s) ==
  LET s1 == IF s.region # None
            THEN fetchRecyclingCenters(
                   [s EXCEPT !.currentSearchKeyword = s.searchKeyword],
                   Val(s.region).latitude, Val(s.region).longitude,
                   s.searchKeyword, FALSE)
            ELSE s
  IN [s1 EXCEPT !.searchModalVisible = FALSE]

handleSearch ==
  /\ searchModalVisible
  /\ InputOpen
  /\ LET s == Settle(St, HandleSearchBody(St))
     IN /\ s.searchesIssued <= MaxSearches
        /\ Commit(s)

(* Mutant of ClearSearchBody: without setPrevItemName('') *)
ClearSearchBody_KeepsLastSeen(s) ==
  LET s1 == [s EXCEPT !.searchKeyword = <<>>,
                      !.currentSearchKeyword = <<>>]
  IN IF s.region # None
     THEN fetchRecyclingCenters(s1, Val(s.region).latitude,
                                Val(s.region).longitude, <<>>, FALSE)
     ELSE s1

(* lines 228-235 *)
ClearSearchBody(s) ==
  LET s1 == [s EXCEPT !.searchKeyword = <<>>,
                      !.currentSearchKeyword = <<>>,
                      !.prevItemName = <<>>]
  IN IF s.region # None
     THEN fetchRecyclingCenters(s1, Val(s.region).latitude,
                                Val(s.region).longitude, <<>>, FALSE)
     ELSE s1

clearSearch ==
  /\ searchModalVisible
  /\ InputOpen
  /\ LET s == Settle(St, ClearSearchBody(St))
     IN /\ s.searchesIssued <= MaxSearches
        /\ Commit(s)

(* Mutant of HandleCloseSearchModalBody: clearSearch() without the test of
   line 239 *)
HandleCloseSearchModalBody_AlwaysClears(s) ==
  [ClearSearchBody(s) EXCEPT !.searchModalVisible = FALSE]

(* lines 238-243 *)
HandleCloseSearchModalBody(s) ==
  LET s1 == IF s.searchKeyword = <<>> THEN ClearSearchBody(s) ELSE s
  IN [s1 EXCEPT !.searchModalVisible = FALSE]

handleCloseSearchModal ==
  /\ searchModalVisible
  /\ InputOpen
  /\ LET s == Settle(St, HandleCloseSearchModalBody(St))
     IN /\ s.searchesIssued <= MaxSearches
        /\ Commit(s)

----------------------------------------------------------------------------
(* Places Client: the continuations of the network calls *)

Ids(centers) == {centers[k].id : k \in 1..Len(centers)}

(* Mutant of SearchSucceedsBody: the new centers are appended to the list *)
SearchSucceedsBody_Appends(s, c, results) ==
  LET centers == [k \in 1..Len(results) |-> ToCenter(results[k])]
      s1 == [s EXCEPT !.recyclingCenters = @ \o centers,
                      !.pendingSearches = @ \ {c}]
      s2 == ForEachFetchPlaceDetails(s1, centers)
      s3 == [s2 EXCEPT !.loading = FALSE, !.lastResponse = "searchOk"]
  IN IF c.awaited THEN [s3 EXCEPT !.isInitialRender = FALSE] ELSE s3

(* Mutant of SearchSucceedsBody: the details calls are issued for the
   entries of the list that is being replaced *)
SearchSucceedsBody_DetailsOfOldList(s, c, results) ==
  LET centers == [k \in 1..Len(results) |-> ToCenter(results[k])]
      s1 == [s EXCEPT !.recyclingCenters = centers,
                      !.pendingSearches = @ \ {c}]
      s2 == ForEachFetchPlaceDetails(s1, s.recyclingCenters)
      s3 == [s2 EXCEPT !.loading = FALSE, !.lastResponse = "searchOk"]
  IN IF c.awaited THEN [s3 EXCEPT !.isInitialRender = FALSE] ELSE s3

(* lines 128-137 and 140-142: nearby-search call c resolves with results;
   line 72 then resumes a suspended handleItemNameChange *)
SearchSucceedsBody(s, c, results) ==
  LET centers == [k \in 1..Len(results) |-> ToCenter(results[k])]
      s1 == [s EXCEPT !.recyclingCenters = centers,
                      !.pendingSearches = @ \ {c}]
      s2 == ForEachFetchPlaceDetails(s1, centers)
      s3 == [s2 EXCEPT !.loading = FALSE, !.lastResponse = "searchOk"]
  IN IF c.awaited THEN [s3 EXCEPT !.isInitialRender = FALSE] ELSE s3

SearchSucceeds(c, results) ==
  /\ c \in pendingSearches
  /\ detailsIssued + Len(results) <= MaxDetails
  /\ Commit(Settle(St, SearchSucceedsBody(St, c, results)))

(* Mutant of SearchFailsBody: setLoading(false) only on the success path *)
SearchFailsBody_StaysLoading(s, c) ==
  LET s1 == [s EXCEPT !.pendingSearches = @ \ {c},
                      !.lastResponse = "searchFailed"]
  IN IF c.awaited THEN [s1 EXCEPT !.isInitialRender = FALSE] ELSE s1

(* lines 138-142: nearby-search call c rejects, or its response cannot be
   mapped; line 72 then resumes a suspended handleItemNameChange *)
SearchFailsBody(s, c) ==
  LET s1 == [s EXCEPT !.pendingSearches = @ \ {c},
                      !.loading = FALSE,
                      !.lastResponse = "searchFailed"]
  IN IF c.awaited THEN [s1 EXCEPT !.isInitialRender = FALSE] ELSE s1

SearchFails(c) ==
  /\ c \in pendingSearches
  /\ Commit(Settle(St, SearchFailsBody(St, c)))

(* Mutant of DetailsSucceedBody: a result whose identifier is not in the list
   is added to it *)
DetailsSucceedBody_Upserts(s, d, placeDetails) ==
  [s EXCEPT !.recyclingCenters =
              IF d.place_id \in Ids(@)
              THEN MergeDetails(@, d.place_id, placeDetails)
              ELSE Append(@, [id |-> d.place_id, name |-> "", latitude |-> 0,
                              longitude |-> 0, address |-> addressNotAvailable,
                              openingHours |-> placeDetails.opening_hours,
                              rating |-> placeDetails.rating,
                              description |-> Some(TopReview(placeDetails))]),
            !.pendingDetails = @ \ {d},
            !.lastResponse = IF d.place_id \in Ids(s.recyclingCenters)
                             THEN "detailsMerged" ELSE "detailsDropped"]

(* lines 158-176: details call d resolves *)
DetailsSucceedBody(s, d, placeDetails) ==
  [s EXCEPT !.recyclingCenters = MergeDetails(@, d.place_id, placeDetails),
            !.pendingDetails = @ \ {d},
            !.lastResponse = IF d.place_id \in Ids(s.recyclingCenters)
                             THEN "detailsMerged" ELSE "detailsDropped"]

DetailsSucceed(d, placeDetails) ==
  /\ d \in pendingDetails
  /\ Commit(Settle(St, DetailsSucceedBody(St, d, placeDetails)))

(* lines 177-179: details call d rejects, or has no result *)
DetailsFail(d) ==
  /\ d \in pendingDetails
  /\ Commit([St EXCEPT !.pendingDetails = @ \ {d}, !.lastResponse = "detailsFailed"])

----------------------------------------------------------------------------
(* Detail modal *)

(* lines 258-266: the markers, rendered while loading is false and the
   region is set; a visible modal takes the touches *)
MarkersShown == ~loading /\ region # None /\ ~searchModalVisible /\ ~modalVisible

(* Mutant of HandleMarkerPressBody: the map is centred on the tapped center *)
HandleMarkerPressBody_RecentersRegion(s, center) ==
  [s EXCEPT !.selectedCenter = Some(center),
            !.modalVisible = TRUE,
            !.isExpanded = FALSE,
            !.region = Some([latitude |-> center.latitude,
                             longitude |-> center.longitude,
                             latitudeDelta |-> regionDelta,
                             longitudeDelta |-> regionDelta])]

(* lines 182-186 *)
HandleMarkerPressBody(s, center) ==
  [s EXCEPT !.selectedCenter = Some(center),
            !.modalVisible = TRUE,
            !.isExpanded = FALSE]

handleMarkerPress(center) ==
  /\ MarkersShown
  /\ \E k \in 1..Len(recyclingCenters) : recyclingCenters[k] = center
  /\ Commit(Settle(St, HandleMarkerPressBody(St, center)))

(* the detail modal is rendered for a selected center, lines 342-346 *)
DetailModalShown == selectedCenter # None /\ modalVisible

(* lines 201-203 *)
ToggleDescriptionBody(s) == [s EXCEPT !.isExpanded = ~s.isExpanded]

toggleDescription ==
  /\ DetailModalShown
  /\ Commit(Settle(St, ToggleDescriptionBody(St)))

(* lines 188-198: Get Directions opens the maps link and closes the modal *)
openMaps ==
  /\ DetailModalShown
  /\ Commit([St EXCEPT !.modalVisible = FALSE])

(* lines 397-402: the Close button of the detail modal *)
closeModal ==
  /\ DetailModalShown
  /\ Commit([St EXCEPT !.modalVisible = FALSE])

(* lines 347-349: onRequestClose of the detail modal *)
requestCloseModal ==
  /\ DetailModalShown
  /\ Commit([St EXCEPT !.modalVisible = ~modalVisible])

----------------------------------------------------------------------------

Next ==
  \/ PermissionDenied
  \/ PermissionGranted
  \/ \E coords \in Positions : LocationAcquired(coords)
  \/ LocationFailed
  \/ \E name \in ItemNames : ItemNameChange(name)
  \/ OpenSearchModal
  \/ \E text \in Keywords : setSearchKeyword(text)
  \/ handleSearch
  \/ clearSearch
  \/ handleCloseSearchModal
  \/ \E c \in pendingSearches, results \in SearchResults : SearchSucceeds(c, results)
  \/ \E c \in pendingSearches : SearchFails(c)
  \/ \E d \in pendingDetails, placeDetails \in DetailResults :
        DetailsSucceed(d, placeDetails)
  \/ \E d \in pendingDetails : DetailsFail(d)

Spec == Init /\ [][Next]_vars

(* The screen used through its markers and its detail modal: location,
   network continuations and the detail modal, with review texts around the
   truncation limit. *)
NextModal ==
  \/ PermissionDenied
  \/ PermissionGranted
  \/ \E coords \in Positions : LocationAcquired(coords)
  \/ LocationFailed
  \/ \E c \in pendingSearches, results \in SearchResults : SearchSucceeds(c, results)
  \/ \E c \in pendingSearches : SearchFails(c)
  \/ \E d \in pendingDetails, placeDetails \in ReviewedDetailResults :
        DetailsSucceed(d, placeDetails)
  \/ \E d \in pendingDetails : DetailsFail(d)
  \/ \E k \in 1..Len(recyclingCenters) : handleMarkerPress(recyclingCenters[k])
  \/ toggleDescription
  \/ openMaps
  \/ closeModal
  \/ requestCloseModal

SpecModal == Init /\ [][NextModal]_vars

(* The whole screen: every handler and continuation, with nearby-search
   responses of at most one place and details responses that carry details. *)
ScreenSearchResults == {results \in SearchResults : Len(results) <= 1}

ScreenDetailResults == {placeDetails \in DetailResults : placeDetails.rating # None}

NextScreen ==
  \/ PermissionDenied
  \/ PermissionGranted
  \/ \E coords \in Positions : LocationAcquired(coords)
  \/ LocationFailed
  \/ \E name \in ItemNames : ItemNameChange(name)
  \/ OpenSearchModal
  \/ \E text \in Keywords : setSearchKeyword(text)
  \/ handleSearch
  \/ clearSearch
  \/ handleCloseSearchModal
  \/ \E c \in pendingSearches, results \in ScreenSearchResults :
        SearchSucceeds(c, results)
  \/ \E c \in pendingSearches : SearchFails(c)
  \/ \E d \in pendingDetails, placeDetails \in ScreenDetailResults :
        DetailsSucceed(d, placeDetails)
  \/ \E d \in pendingDetails : DetailsFail(d)
  \/ \E k \in 1..Len(recyclingCenters) : handleMarkerPress(recyclingCenters[k])
  \/ toggleDescription
  \/ openMaps
  \/ closeModal
  \/ requestCloseModal

SpecScreen == Init /\ [][NextScreen]_vars

TypeOK ==
  /\ region \in {None} \cup {Some([latitude |-> p.latitude, longitude |-> p.longitude,
                                   latitudeDelta |-> regionDelta,
                                   longitudeDelta |-> regionDelta]) : p \in Positions}
  /\ searchKeyword \in Keywords
  /\ currentSearchKeyword \in Keywords
  /\ itemName \in ItemNames
  /\ prevItemName \in ItemNames
  /\ loading \in BOOLEAN /\ searchModalVisible \in BOOLEAN /\ isInitialRender \in BOOLEAN
  /\ locationTask \in {"requesting", "denied", "locating", "failed", "done"}
  /\ searchesIssued \in 0..MaxSearches
  /\ detailsIssued \in 0..MaxDetails
  /\ Cardinality(pendingSearches) <= searchesIssued
  /\ Cardinality(pendingDetails) <= detailsIssued
  /\ modalVisible \in BOOLEAN /\ isExpanded \in BOOLEAN
  /\ modalVisible => selectedCenter # None
  /\ lastResponse \in {"none", "searchOk", "searchFailed",
                       "detailsMerged", "detailsDropped", "detailsFailed"}

----------------------------------------------------------------------------
(* Properties *)

Coords(r) == <<Val(r).latitude, Val(r).longitude>>

NewSearches == pendingSearches' \ pendingSearches

(* The request a search at the region's coordinates with the empty keyword
   sends, written out independently of the model's definitions. *)
C_DefaultQuery ==
  <<"r","e","c","y","c","l","i","n","g"," ","c","e","n","t","e","r","|",
    "w","a","s","t","e"," ","m","a","n","a","g","e","m","e","n","t","|",
    "r","e","c","y","c","l","a","b","l","e"," ","m","a","t","e","r","i","a","l","s","|",
    "r","e","c","y","c","l","e"," ","c","e","n","t","e","r">>

C_Suffix == <<" ","r","e","c","y","c","l","i","n","g">>

(* C1: submitting the search dialog with draft D while the region is set
   makes the committed keyword D, closes the dialog and issues exactly one
   new nearby-search call, at the region's coordinates, counting the calls
   of the reactive effect. *)
C1_SubmitIssuesExactlyOneSearch ==
  [][(handleSearch /\ region # None) =>
       /\ currentSearchKeyword' = searchKeyword
       /\ ~searchModalVisible'
       /\ searchesIssued' = searchesIssued + 1
       /\ \A c \in NewSearches : c.location = Coords(region)]_vars

(* C2: a successful nearby-search response of N results leaves a list of
   exactly N entries carrying the response's place identifiers in response
   order, none of them with openingHours, rating or description. *)
C2_SuccessReplacesList ==
  [][\A c \in pendingSearches, results \in SearchResults :
       SearchSucceeds(c, results) =>
         /\ Len(recyclingCenters') = Len(results)
         /\ \A k \in 1..Len(results) :
              /\ recyclingCenters'[k].id = results[k].place_id
              /\ recyclingCenters'[k].openingHours = None
              /\ recyclingCenters'[k].rating = None
              /\ recyclingCenters'[k].description = None]_vars

C2_Witness ==
  /\ lastResponse = "searchOk"
  /\ Len(recyclingCenters) = 2
  /\ \A k \in 1..2 :
       \E d \in pendingDetails : d.n = k /\ d.place_id = recyclingCenters[k].id

(* C3: a details response for an identifier X present in the list changes
   only openingHours, rating and description of the entries with identifier
   X; every other field, every other entry, the length and the order of
   identifiers stay. *)
C3_MergeTouchesOnlyDetailFields ==
  [][\A d \in pendingDetails, placeDetails \in DetailResults :
       (DetailsSucceed(d, placeDetails) /\ d.place_id \in Ids(recyclingCenters)) =>
         /\ Len(recyclingCenters') = Len(recyclingCenters)
         /\ \A k \in 1..Len(recyclingCenters) :
              /\ recyclingCenters'[k].id = recyclingCenters[k].id
              /\ recyclingCenters'[k].name = recyclingCenters[k].name
              /\ recyclingCenters'[k].latitude = recyclingCenters[k].latitude
              /\ recyclingCenters'[k].longitude = recyclingCenters[k].longitude
              /\ recyclingCenters'[k].address = recyclingCenters[k].address
              /\ recyclingCenters[k].id # d.place_id =>
                   recyclingCenters'[k] = recyclingCenters[k]]_vars

C3_Witness ==
  /\ lastResponse = "detailsMerged"
  /\ Len(recyclingCenters) = 2
  /\ \E k \in 1..2 : recyclingCenters[k].description # None
  /\ \E k \in 1..2 : recyclingCenters[k].description = None

(* C4: a details response for an identifier absent from the list when it
   lands leaves the list exactly as it was. *)
C4_AbsentIdIsNoOp ==
  [][\A d \in pendingDetails, placeDetails \in DetailResults :
       (DetailsSucceed(d, placeDetails) /\ d.place_id \notin Ids(recyclingCenters)) =>
         recyclingCenters' = recyclingCenters]_vars

C4_Witness ==
  /\ lastResponse = "detailsDropped"
  /\ recyclingCenters # <<>>

(* C5: the keyword sent to the nearby-search endpoint for argument k is
   trim(k) followed by " recycling" when trim(k) is non-empty and the fixed
   default string when k is empty or white space only.  t is the trim of k
   when k is t between two runs of white space and t neither starts nor
   ends with white space. *)
C5_IsTrimOf(t, k) ==
  \E i, j \in 0..Len(k) :
    /\ i + j <= Len(k)
    /\ t = SubSeq(k, i + 1, Len(k) - j)
    /\ \A x \in 1..i : k[x] \in WhiteSpace
    /\ \A x \in (Len(k) - j + 1)..Len(k) : k[x] \in WhiteSpace
    /\ t # <<>> => (t[1] \notin WhiteSpace /\ t[Len(t)] \notin WhiteSpace)

C5_SentKeyword ==
  \A c \in pendingSearches :
    \E a \in 1..(Len(c.arg) + 1), b \in 0..Len(c.arg) :
      LET t == SubSeq(c.arg, a, b)
      IN /\ C5_IsTrimOf(t, c.arg)
         /\ c.keyword = IF t # <<>> THEN t \o C_Suffix ELSE C_DefaultQuery

C5_Witness ==
  \E c \in pendingSearches :
    /\ c.arg = <<" ", "a", " ">>
    /\ c.keyword = <<"a", " ", "r", "e", "c", "y", "c", "l", "i", "n", "g">>

(* C6: closing the search dialog with an empty draft does what Clear does
   (keywords reset, one re-fetch with the empty keyword) and closes the
   dialog; closing with a non-empty draft changes no keyword and issues no
   fetch. *)
C6_CloseWithEmptyDraftIsClear ==
  [][handleCloseSearchModal =>
       /\ ~searchModalVisible'
       /\ IF searchKeyword = <<>>
          THEN /\ St' = [Settle(St, ClearSearchBody(St))
                           EXCEPT !.searchModalVisible = FALSE]
               /\ currentSearchKeyword' = <<>>
               /\ searchesIssued' = searchesIssued + 1
               /\ \E c \in NewSearches :
                    c.arg = <<>> /\ c.keyword = C_DefaultQuery
          ELSE UNCHANGED <<searchKeyword, currentSearchKeyword, prevItemName,
                           pendingSearches, searchesIssued>>]_vars

C6_Witness ==
  /\ ~searchModalVisible
  /\ searchKeyword = <<>> /\ currentSearchKeyword = <<>>
  /\ itemName # <<>> /\ prevItemName = <<>>
  /\ \E c \in pendingSearches : c.n = searchesIssued /\ c.n > 1 /\ c.arg = <<>>

(* C7: Clear resets the last-seen external keyword, the draft and the
   committed keyword to empty and issues exactly one re-fetch, with the
   empty keyword (default query) at the region's coordinates. *)
C7_ClearResetsAndRefetchesOnce ==
  [][clearSearch =>
       /\ prevItemName' = <<>>
       /\ searchKeyword' = <<>>
       /\ currentSearchKeyword' = <<>>
       /\ searchesIssued' = searchesIssued + 1
       /\ pendingSearches' = pendingSearches \cup
            {[n |-> searchesIssued + 1, location |-> Coords(region),
              radius |-> 80467, keyword |-> C_DefaultQuery,
              arg |-> <<>>, awaited |-> FALSE]}]_vars

C7_Witness ==
  /\ searchModalVisible
  /\ searchKeyword = <<>> /\ currentSearchKeyword = <<>>
  /\ itemName # <<>> /\ prevItemName = <<>>
  /\ \E c \in pendingSearches : c.n = searchesIssued /\ c.n > 1 /\ c.arg = <<>>

(* C8 as stated: once the effects have run, itemName never differs from
   the last-seen external keyword. *)
C8_ItemNameAlwaysLastSeen == itemName = prevItemName

(* C8 amended: a non-empty itemName is propagated into the draft and the
   committed keyword and recorded as last-seen on the first render and
   whenever it arrives different from the last-seen external keyword. *)
C8_NonEmptyItemNamePropagated ==
  /\ itemName # <<>> =>
       (searchKeyword = itemName /\ currentSearchKeyword = itemName
        /\ prevItemName = itemName)
  /\ [][(itemName' # itemName /\ itemName' # <<>> /\ itemName' # prevItemName) =>
          /\ searchKeyword' = itemName'
          /\ currentSearchKeyword' = itemName'
          /\ prevItemName' = itemName']_vars

C8_Witness ==
  /\ itemName # <<>>
  /\ prevItemName = itemName
  /\ searchKeyword = itemName /\ currentSearchKeyword = itemName
  /\ \E c \in pendingSearches : c.awaited /\ c.arg = itemName

(* C9: a failed nearby-search call leaves the list as it was, issues no
   details request, records nothing but the cleared loading flag, and
   loading is false once it has settled. *)
C9_FailedSearchKeepsList ==
  [][\A c \in pendingSearches :
       SearchFails(c) =>
         /\ recyclingCenters' = recyclingCenters
         /\ pendingDetails' = pendingDetails
         /\ detailsIssued' = detailsIssued
         /\ pendingSearches' = pendingSearches \ {c}
         /\ searchesIssued' = searchesIssued
         /\ ~loading'
         /\ UNCHANGED <<region, searchModalVisible, searchKeyword,
                        currentSearchKeyword, itemName, prevItemName,
                        locationTask>>]_vars

C9_Witness ==
  /\ lastResponse = "searchFailed"
  /\ recyclingCenters # <<>>
  /\ ~loading

(* C10: after location permission was denied on mount no nearby-search or
   details call has been issued, the list is empty, the region is unset and
   loading is still true, whatever itemName arrives afterwards. *)
C10_DenialIsStuck ==
  locationTask = "denied" =>
    /\ searchesIssued = 0 /\ pendingSearches = {}
    /\ detailsIssued = 0 /\ pendingDetails = {}
    /\ recyclingCenters = <<>>
    /\ region = None
    /\ loading

C10_Witness ==
  /\ locationTask = "denied"
  /\ itemName = <<>>
  /\ prevItemName # <<>>
  /\ currentSearchKeyword = prevItemName

(* C11: the description of the selected center is rendered as its first 20
   space-separated words followed by "..." while collapsed when it has more
   than 20 words, and in full while expanded or when it has 20 words or
   fewer; a tap on the toggle flips the expanded flag, a marker tap selects
   the tapped center, shows the modal and resets the flag to collapsed.  A
   text of more than 20 words has at least 20 spaces, and its first 20 words
   end just before the 20th space. *)
C11_Spaces(desc) == {i \in 1..Len(desc) : desc[i] = " "}

C11_Expected(desc, expanded) ==
  IF ~expanded /\ Cardinality(C11_Spaces(desc)) >= 20
  THEN LET cut == CHOOSE i \in C11_Spaces(desc) :
                    Cardinality({j \in C11_Spaces(desc) : j < i}) = 19
       IN SubSeq(desc, 1, cut - 1) \o <<".", ".", ".">>
  ELSE desc

C11_DescriptionRendering ==
  /\ []((selectedCenter # None /\ Val(selectedCenter).description # None) =>
          descriptionText =
            Some(C11_Expected(Val(Val(selectedCenter).description), isExpanded)))
  /\ [][toggleDescription =>
          /\ isExpanded' = ~isExpanded
          /\ UNCHANGED <<selectedCenter, modalVisible, recyclingCenters>>]_vars
  /\ [][\A k \in 1..Len(recyclingCenters) :
          handleMarkerPress(recyclingCenters[k]) =>
            /\ selectedCenter' = Some(recyclingCenters[k])
            /\ modalVisible'
            /\ ~isExpanded']_vars

C11_Witness ==
  /\ DetailModalShown
  /\ ~isExpanded
  /\ Val(selectedCenter).description # None
  /\ descriptionText # None
  /\ Len(Val(Val(selectedCenter).description)) = 41
  /\ Len(Val(descriptionText)) = 42
  /\ \A i \in 1..39 : Val(descriptionText)[i] = Val(Val(selectedCenter).description)[i]
  /\ SubSeq(Val(descriptionText), 40, 42) = <<".", ".", ".">>

(* C12: loading is true whenever at least one nearby-search call is in
   flight, also when several overlap, and false once the calls issued have
   all settled, whatever details calls are outstanding. *)
C12_LoadingWhileSearchInFlight ==
  /\ pendingSearches # {} => loading
  /\ (pendingSearches = {} /\ searchesIssued > 0) => ~loading

(* The second half of C12 alone *)
C12_NotLoadingOnceSettled ==
  (pendingSearches = {} /\ searchesIssued > 0) => ~loading

(* C13: a details response of a superseded search still lands: it leaves the
   list as it is when its identifier is not in the newer list, and when the
   identifier is in the newer list it overwrites openingHours, rating and
   description of that entry, whatever they were.  The details calls of the
   response that produced the current list are the last Len(recyclingCenters)
   calls issued (one per entry, lines 136-137); every earlier call belongs to
   a search whose list has been replaced. *)
C13_Superseded(d) == d.n <= detailsIssued - Len(recyclingCenters)

C13_Description(placeDetails) ==
  IF Len(placeDetails.reviews) > 0 /\ placeDetails.reviews[1].text # <<>>
  THEN placeDetails.reviews[1].text
  ELSE <<"N","o"," ","r","e","v","i","e","w","s"," ",
         "a","v","a","i","l","a","b","l","e",".">>

C13_SupersededDetailsStillLand ==
  [][\A d \in pendingDetails, placeDetails \in DetailResults :
       (DetailsSucceed(d, placeDetails) /\ C13_Superseded(d)) =>
         IF d.place_id \notin Ids(recyclingCenters)
         THEN recyclingCenters' = recyclingCenters
         ELSE /\ Len(recyclingCenters') = Len(recyclingCenters)
              /\ \A k \in 1..Len(recyclingCenters) :
                   IF recyclingCenters[k].id = d.place_id
                   THEN /\ recyclingCenters'[k].openingHours = placeDetails.opening_hours
                        /\ recyclingCenters'[k].rating = placeDetails.rating
                        /\ recyclingCenters'[k].description =
                             Some(C13_Description(placeDetails))
                   ELSE recyclingCenters'[k] = recyclingCenters[k]]_vars

(* the details call of the current list's only entry is still in flight and
   the entry has details: the response merged last was a superseded one *)
C13_Witness ==
  /\ lastResponse = "detailsMerged"
  /\ Len(recyclingCenters) = 1
  /\ detailsIssued = 2
  /\ recyclingCenters[1].description # None
  /\ \E d \in pendingDetails : d.n = 2 /\ d.place_id = recyclingCenters[1].id

(* C14: a successful nearby-search response replaces the list and then
   issues exactly one details call per entry of the response, in response
   order; a failed one issues none, and nothing else issues details calls.
   So every details call in flight that is not superseded is the call of an
   entry of the current list, and a details response never finds a list
   older than the one of its own search.  The call that settles in a step is
   the one that leaves pendingSearches; the first conjunct states the
   property of the calls in flight for the initial state, the second for the
   state after every step. *)
C14_ReplaceThenOneDetailPerEntry ==
  /\ \A d \in pendingDetails :
       ~C13_Superseded(d) =>
         recyclingCenters[d.n - (detailsIssued - Len(recyclingCenters))].id
           = d.place_id
  /\ [][/\ \A d \in pendingDetails' :
            d.n > detailsIssued' - Len(recyclingCenters') =>
              recyclingCenters'[d.n - (detailsIssued' - Len(recyclingCenters'))].id
                = d.place_id
        /\ \A c \in pendingSearches \ pendingSearches' :
            /\ \A results \in SearchResults :
                 SearchSucceeds(c, results) =>
                   /\ \A k \in 1..Len(results) :
                        recyclingCenters'[k].id = results[k].place_id
                   /\ detailsIssued' = detailsIssued + Len(results)
                   /\ pendingDetails' = pendingDetails \cup
                        {[n |-> detailsIssued + k,
                          place_id |-> results[k].place_id] :
                           k \in 1..Len(results)}
            /\ SearchFails(c) => UNCHANGED <<pendingDetails, detailsIssued>>
        /\ detailsIssued' # detailsIssued =>
            \E c \in pendingSearches, results \in SearchResults :
              SearchSucceeds(c, results)]_vars

C14_Witness ==
  /\ lastResponse = "searchOk"
  /\ Len(recyclingCenters) = 1
  /\ detailsIssued = 2
  /\ \E d \in pendingDetails : d.n = 2 /\ d.place_id = recyclingCenters[1].id
  /\ \E d \in pendingDetails : d.n = 1 /\ d.place_id # recyclingCenters[1].id

(* C15: every nearby-search call is issued with the keyword of the committed
   keyword as it stands after the step that issues it, the default search of
   mount included; typing in the search box issues no call and changes
   neither the committed keyword nor the list. *)
C15_FetchesUseCommittedKeyword ==
  [][/\ \A c \in NewSearches :
          c.keyword = EffectiveKeyword(currentSearchKeyword')
     /\ \A text \in Keywords :
          setSearchKeyword(text) =>
            UNCHANGED <<pendingSearches, searchesIssued,
                        currentSearchKeyword, recyclingCenters>>]_vars

(* The parts of C15 that hold: the calls issued by any step but the arrival
   of the position, and the typing *)
C15_FetchesAfterMountUseCommittedKeyword ==
  [][/\ locationTask = "done" =>
          \A c \in NewSearches : c.arg = currentSearchKeyword'
     /\ \A text \in Keywords :
          setSearchKeyword(text) =>
            UNCHANGED <<pendingSearches, searchesIssued,
                        currentSearchKeyword, recyclingCenters>>]_vars

(* C16 as stated: a step that starts a nearby-search call leaves no entry of
   the previous list in the list. *)
C16_DiscardedWhenSearchStarts ==
  [][NewSearches # {} =>
       \A k \in 1..Len(recyclingCenters), j \in 1..Len(recyclingCenters') :
         recyclingCenters'[j] # recyclingCenters[k]]_vars

(* C16 amended: the entries are discarded when a successful nearby-search
   response replaces the list, and only then: a step that starts a search
   call and a failed search call leave the list as it is, and the set of
   identifiers and the length of the list change in no other step than a
   successful response. *)
C16_DiscardedOnlyBySuccessfulResponse ==
  [][/\ NewSearches # {} => recyclingCenters' = recyclingCenters
     /\ \A c \in pendingSearches :
          SearchFails(c) => recyclingCenters' = recyclingCenters
     /\ (Ids(recyclingCenters') # Ids(recyclingCenters)
           \/ Len(recyclingCenters') # Len(recyclingCenters)) =>
          \E c \in pendingSearches, results \in SearchResults :
            /\ SearchSucceeds(c, results)
            /\ Len(recyclingCenters') = Len(results)
            /\ \A k \in 1..Len(results) :
                 recyclingCenters'[k].id = results[k].place_id]_vars

(* the second search call, started from the search dialog after the first
   had settled, is in flight and an entry of the first call's list, with its
   details, is still in the list *)
C16_Witness ==
  /\ loading
  /\ searchesIssued = 2
  /\ \E c \in pendingSearches :
       c.n = 2 /\ c.arg = <<>> /\ pendingSearches = {c}
  /\ \E k \in 1..Len(recyclingCenters) : recyclingCenters[k].description # None

(* C17: in every step of the screen (submit, Clear, dialog close, a new
   itemName, a marker tap, a search response, a details response, ...) the
   region stays as it is, except in the step in which the position arrives:
   that step takes it from unset to the acquired position with deltas
   0.1/0.1, so it is set at most once per mount, and issues the default
   search at that position.  Every search call, whatever step issues it,
   carries the coordinates of the region. *)
C17_RegionOnlyByLocationAcquirer ==
  /\ [][region' # region =>
          /\ region = None
          /\ locationTask = "locating"
          /\ \E coords \in Positions :
               /\ LocationAcquired(coords)
               /\ region' = Some([latitude |-> coords.latitude,
                                   longitude |-> coords.longitude,
                                   latitudeDelta |-> "0.1",
                                   longitudeDelta |-> "0.1"])
               /\ \E c \in NewSearches :
                    c.arg = <<>>
                    /\ c.location = <<coords.latitude, coords.longitude>>]_vars
  /\ [][\A c \in NewSearches :
          region' # None /\ c.location = Coords(region')]_vars

(* a marker has been tapped and a search submitted from the dialog is in
   flight at the region's coordinates *)
C17_Witness ==
  /\ region # None
  /\ selectedCenter # None
  /\ searchesIssued >= 2
  /\ \E c \in pendingSearches :
       /\ c.n = searchesIssued
       /\ c.arg = <<" ", "a", " ">>
       /\ c.location = Coords(region)
  /\ itemName = <<>>

(* C18, for two overlapping calls: once both have settled successfully the
   list holds the identifiers of the response to the call issued second, in
   whichever order the responses arrive.  When two calls have been issued,
   the first is the only one in flight and the last network continuation was
   a successful search response, the list is the response to the second
   call; the claim then requires the response to the first call, sent with
   another query than the committed keyword's, to leave those identifiers in
   place. *)
C18_IdsOf(centers) == [k \in 1..Len(centers) |-> centers[k].id]

C18_ListIsNewestResponse ==
  [][\A c \in pendingSearches, results \in SearchResults :
       (/\ SearchSucceeds(c, results)
        /\ searchesIssued = 2
        /\ pendingSearches = {c}
        /\ c.n = 1
        /\ c.keyword # EffectiveKeyword(currentSearchKeyword)
        /\ lastResponse = "searchOk") =>
         C18_IdsOf(recyclingCenters') = C18_IdsOf(recyclingCenters)]_vars

(* C19: whenever the detail modal shows a selected center, the list has an
   entry with the same identifier and that entry equals the selected center
   field by field. *)
C19_ModalShowsCurrentEntry ==
  DetailModalShown =>
    \E k \in 1..Len(recyclingCenters) :
      /\ recyclingCenters[k].id = Val(selectedCenter).id
      /\ recyclingCenters[k] = Val(selectedCenter)

(* C20: in every state where loading is false the region is set, so the
   handlers of the search dialog, reachable only through the search icon
   shown while loading is false, always take the branch that fetches. *)
C20_NotLoadingImpliesRegion ==
  /\ [](~loading => region # None)
  /\ [](searchModalVisible => region # None)
  /\ [][(handleSearch \/ clearSearch
           \/ (handleCloseSearchModal /\ searchKeyword = <<>>)) =>
          \E c \in NewSearches : c.location = Coords(region)]_vars

(* a keyword submitted from the search dialog is committed and its searches
   have settled *)
C20_Witness ==
  /\ ~loading
  /\ region # None
  /\ itemName = <<>> /\ prevItemName = <<>>
  /\ currentSearchKeyword = <<" ", "a", " ">>
  /\ searchesIssued >= 2
  /\ pendingSearches = {}

====
